---- MODULE Spec2Model ----
(***************************************************************************)
(* Cpp_Multicast_Save: the acquisition loop (AcquireImages), the async     *)
(* save queue (SaveWorker / EnqueueSave / StopSaveWorker), the ESC watcher *)
(* (SetupTerminalForEsc / CheckForEsc / RestoreTerminal) and the outer      *)
(* boundary in main, as one state machine with two threads.                *)
(***************************************************************************)
EXTENDS Integers, Sequences, FiniteSets, TLC

\* ---------------------------------------------------------------- bounds
\* GetImage calls of one run (imageCount never exceeds it).
MaxAttempts == 11
\* GetImage calls of one run that end in a TimeoutException.
MaxTimeouts == 1

\* ------------------------------------------------------ program constants
\* "if (savedImageCount < 10)" and "savedImageCount >= 10".
SaveLimit == 10
\* "if (ch == 27)".
ESC == 27
\* Any other key (the letter 'a').
OtherKey == 97

\* What the operator may type during a run, as one burst of keys: ESC alone,
\* another key alone, ESC after another key, ESC before another key.
KeyBursts == { << ESC >>, << OtherKey >>, << OtherKey, ESC >>, << ESC, OtherKey >> }

VARIABLES
    \* --- device (Arena::IDevice) and its node maps
    deviceAccessStatus,     \* TLDevice node "DeviceAccessStatus"
    acquisitionMode,        \* device node "AcquisitionMode"
    devLog,                 \* every SetNodeValue / StartStream / StopStream issued
    streaming,              \* stream started and not stopped
    nextFrameId,            \* frame id the device gives the next frame
    borrowed,               \* frames handed out by GetImage, not yet requeued
    \* --- AcquireImages locals
    pc,                     \* position of the acquisition (main) thread
    acquisitionModeInitial,
    isMaster,
    imageCount,
    unreceivedImageCount,
    savedImageCount,
    escPressed,
    pImage,                 \* 0 is NULL
    job,                    \* the SaveJob being built / enqueued
    noImagesDiag,           \* the "No images were received" diagnostic was printed
    failed,                 \* an exception is propagating out of AcquireImages
    \* --- SaveQueue and the worker thread
    jobs,                   \* saveQueue.jobs
    stop,                   \* saveQueue.stop
    mutex,                  \* owner of saveQueue.mutex: "free", "acq", "worker"
    wpc,                    \* position of the SaveWorker thread
    wjob,                   \* SaveWorker's local job
    \* --- terminal
    enabled,                \* terminalGuard.settings.enabled
    termRaw,                \* stdin is in the raw, non-blocking mode
    stdin,                  \* bytes pending on stdin
    keysTyped,              \* the operator has typed
    \* --- main
    exceptionThrown,
    exitStatus,             \* -2 while running
    \* --- history (observation only; no action reads these)
    retrieved,              \* frames GetImage returned, in order
    requeued,               \* frames passed to RequeueBuffer, in order
    enqueued,               \* jobs pushed on the queue, in order
    written,                \* jobs SaveImage was called on, in order
    destroyed,              \* jobs whose image copy was destroyed, in order
    lastPoll,               \* the last CheckForEsc call: what was pending, what it returned
    polls,                  \* CheckForEsc calls so far in the current iteration
    termRestores,           \* times the original terminal mode was written back
    backlogAtStop,          \* stop was set while jobs were still queued
    saveFailed,             \* some SaveImage call has thrown
    \* --- the output-directory step of main (CreateOutputDir)
    dExePath,               \* what readlink("/proc/self/exe") gives
    dClock,                 \* time(NULL), in seconds
    dirs,                   \* the directories that exist
    denied,                 \* directories mkdir() refuses to create (EACCES)
    dRuns,                  \* the CreateOutputDir calls made so far, with their results
    dPath                   \* the path an EnsureDir call is given

vars == << deviceAccessStatus, acquisitionMode, devLog, streaming, nextFrameId,
           borrowed, pc, acquisitionModeInitial, isMaster, imageCount,
           unreceivedImageCount, savedImageCount, escPressed, pImage, job,
           noImagesDiag, failed, jobs, stop, mutex, wpc, wjob, enabled, termRaw,
           stdin, keysTyped, exceptionThrown, exitStatus, retrieved, requeued,
           enqueued, written, destroyed, lastPoll, polls, termRestores,
           backlogAtStop, saveFailed, dExePath, dClock, dirs, denied, dRuns,
           dPath >>

devVars  == << deviceAccessStatus, acquisitionMode, devLog, streaming,
               nextFrameId, borrowed >>
locVars  == << acquisitionModeInitial, isMaster, imageCount,
               unreceivedImageCount, savedImageCount, escPressed, pImage, job,
               noImagesDiag, failed >>
qVars    == << jobs, stop, mutex >>
wVars    == << wpc, wjob >>
termVars == << enabled, termRaw, stdin, keysTyped >>
mainVars == << exceptionThrown, exitStatus >>
dirVars  == << dExePath, dClock, dirs, denied, dRuns, dPath >>
histVars == << retrieved, requeued, enqueued, written, destroyed, lastPoll,
               polls, termRestores, backlogAtStop, saveFailed >>

Range(s) == { s[i] : i \in 1..Len(s) }
Min(a, b) == IF a < b THEN a ELSE b

\* A device call as it is logged.
SetNode(map, node, val) == [op |-> "SetNodeValue", map |-> map, node |-> node, val |-> val]
StreamCall(op) == [op |-> op, map |-> "", node |-> "", val |-> ""]

\* A default-constructed SaveJob ("SaveJob job;").
NoJob == [pImage |-> 0, filename |-> 0]

AccessModes == {"ReadWrite", "ReadOnly"}
AcquisitionModes == {"SingleFrame", "Continuous"}

\* AcquireImages is entered: the device is open, nothing was requested yet.
InitRun ==
    /\ deviceAccessStatus \in AccessModes
    /\ acquisitionMode \in AcquisitionModes
    /\ devLog = << >>
    /\ streaming = FALSE
    /\ nextFrameId = 1
    /\ borrowed = {}
    /\ pc = "entry"
    /\ acquisitionModeInitial = ""
    /\ isMaster = FALSE
    /\ imageCount = 0
    /\ unreceivedImageCount = 0
    /\ savedImageCount = 0
    /\ escPressed = FALSE
    /\ pImage = 0
    /\ job = NoJob
    /\ noImagesDiag = FALSE
    /\ failed = FALSE
    /\ jobs = << >>
    /\ stop = FALSE
    /\ mutex = "free"
    /\ wpc = "w_none"
    /\ wjob = NoJob
    /\ enabled = FALSE
    /\ termRaw = FALSE
    /\ stdin = << >>
    /\ keysTyped = FALSE
    /\ exceptionThrown = FALSE
    /\ exitStatus = -2
    /\ retrieved = << >>
    /\ requeued = << >>
    /\ enqueued = << >>
    /\ written = << >>
    /\ destroyed = << >>
    /\ lastPoll = [pending |-> << >>, ret |-> FALSE, on |-> FALSE]
    /\ polls = 0
    /\ termRestores = 0
    /\ backlogAtStop = FALSE
    /\ saveFailed = FALSE

\* ------------------------------------------------ the output-directory step
\* Strings are sequences of characters. Bounds: the length of the executable's
\* path, the seconds the clock may reach, the CreateOutputDir calls made.
MaxExePathLen == 4
MaxClock == 2
MaxDirRuns == 2

PathChars == {"/", "a", "b"}
Strings(n) == UNION { [1..k -> PathChars] : k \in 0..n }
\* What readlink gives for /proc/self/exe: an absolute path without empty
\* components whose last component is the executable's name.
ExePaths ==
    { p \in Strings(MaxExePathLen) :
        /\ Len(p) >= 2
        /\ p[1] = "/"
        /\ p[Len(p)] # "/"
        /\ \A i \in 1..(Len(p) - 1) : ~(p[i] = "/" /\ p[i + 1] = "/") }

\* fullPath.find_last_of('/'): the position (from 1) of the last slash, 0 for npos.
LastSlash(s) ==
    LET at == { i \in 1..Len(s) : s[i] = "/" }
    IN IF at = {} THEN 0 ELSE CHOOSE i \in at : \A j \in at : j <= i

GetExecutableDir(exePath) ==
    IF LastSlash(exePath) = 0 THEN << "." >>
    ELSE SubSeq(exePath, 1, LastSlash(exePath) - 1)

\* strftime of the current second: a string without a slash, one per second.
ClockDigits == << "1", "2", "3", "4" >>
GetRunTimestamp(now) == << ClockDigits[now] >>

\* Line 141: GetExecutableDir() + "/imgs/" + GetRunTimestamp().
OutputDirPath(exePath, now) ==
    GetExecutableDir(exePath) \o << "/", "i", "m", "g", "s", "/" >> \o GetRunTimestamp(now)

\* The directories a path names: its prefixes that end with a component.
PathPrefixes(path) ==
    { SubSeq(path, 1, i) : i \in { j \in 1..Len(path) :
                                     /\ path[j] # "/"
                                     /\ (j = Len(path) \/ path[j + 1] = "/") } }

\* mkdir(2): EEXIST if the directory exists, ENOENT if its parent does not,
\* EACCES if it may not be created; otherwise it is created.
ParentExists(p, fs) ==
    LastSlash(p) <= 1 \/ SubSeq(p, 1, LastSlash(p) - 1) \in fs
Mkdir(p, fs, den) ==
    IF p \in fs THEN [errno |-> "EEXIST", dirs |-> fs]
    ELSE IF ~ParentExists(p, fs) THEN [errno |-> "ENOENT", dirs |-> fs]
    ELSE IF p \in den THEN [errno |-> "EACCES", dirs |-> fs]
    ELSE [errno |-> "", dirs |-> fs \cup {p}]

\* "mkdir(...) != 0 && errno != EEXIST" (errno "" is mkdir returning 0).
MkdirFailsOnExisting(errno) == errno # ""
MkdirFails(errno) == errno # "" /\ errno # "EEXIST"

\* The for loop of EnsureDir, lines 117-133, from index i (counted from 1).
RECURSIVE EnsureDirFrom(_, _, _, _, _, _)
EnsureDirFrom(path, i, start, current, fs, den) ==
    IF i > Len(path) + 1 THEN [ok |-> TRUE, dirs |-> fs]
    ELSE IF i = Len(path) + 1 \/ path[i] = "/"
    THEN LET part == SubSeq(path, start, i - 1)
             joined == IF Len(current) > 1 /\ current[Len(current)] # "/"
                       THEN current \o << "/" >> ELSE current
             made == Mkdir(joined \o part, fs, den)
         IN IF part = << >>
            THEN EnsureDirFrom(path, i + 1, i + 1, current, fs, den)
            ELSE IF MkdirFails(made.errno)
            THEN [ok |-> FALSE, dirs |-> fs]
            ELSE EnsureDirFrom(path, i + 1, i + 1, joined \o part, made.dirs, den)
    ELSE EnsureDirFrom(path, i + 1, start, current, fs, den)

\* Lines 107-136.
EnsureDir(path, fs, den) ==
    IF path = << >> THEN [ok |-> FALSE, dirs |-> fs]
    ELSE IF path[1] = "/"
    THEN EnsureDirFrom(path, 2, 2, << "/" >>, fs, den)
    ELSE EnsureDirFrom(path, 1, 1, << >>, fs, den)

\* The output-directory step is not under way.
DirIdle ==
    /\ dExePath = << "/", "a" >>
    /\ dClock = 1
    /\ dirs = {}
    /\ denied = {}
    /\ dRuns = << >>
    /\ dPath = << >>

Init == InitRun /\ DirIdle

\* The directories the step may name during a run of the clock.
DirCandidates(exePath) ==
    UNION { PathPrefixes(OutputDirPath(exePath, now)) : now \in 1..MaxClock }

\* Before the first CreateOutputDir call: the executable's directory exists,
\* every existing directory's parent exists.
InitDir ==
    /\ InitRun
    /\ dExePath \in ExePaths
    /\ dClock = 1
    /\ dirs \in { fs \in SUBSET DirCandidates(dExePath) :
                    /\ PathPrefixes(GetExecutableDir(dExePath)) \subseteq fs
                    /\ \A d \in fs : ParentExists(d, fs) }
    /\ denied \in SUBSET (DirCandidates(dExePath) \ dirs)
    /\ dRuns = << >>
    /\ dPath = << >>
\* ------------------------------------------------------------ CheckForEsc
\* The read loop of CheckForEsc over the pending bytes: one byte per read(),
\* return at the first 27, stop when read() gives no byte.
RECURSIVE ReadUntilEsc(_)
ReadUntilEsc(buf) ==
    IF buf = << >> THEN [ret |-> FALSE, rest |-> << >>]
    ELSE IF Head(buf) = ESC THEN [ret |-> TRUE, rest |-> Tail(buf)]
    ELSE ReadUntilEsc(Tail(buf))

\* A reader that reads stdin whether or not the watcher is enabled.
CheckForEscWhenDisabled(on, buf) == ReadUntilEsc(buf)

\* A reader that looks at one byte only.
CheckForEscFirstByteOnly(on, buf) ==
    IF ~on \/ buf = << >> THEN [ret |-> FALSE, rest |-> buf]
    ELSE [ret |-> Head(buf) = ESC, rest |-> Tail(buf)]

CheckForEsc(on, buf) ==
    IF ~on THEN [ret |-> FALSE, rest |-> buf] ELSE ReadUntilEsc(buf)

\* One call of CheckForEsc(terminalGuard.settings) by the acquisition loop:
\* the bytes it read are gone from stdin.
Poll ==
    /\ stdin' = CheckForEsc(enabled, stdin).rest
    /\ lastPoll' = [pending |-> stdin, ret |-> CheckForEsc(enabled, stdin).ret,
                    on |-> enabled]
PollResult == CheckForEsc(enabled, stdin).ret

\* ------------------------------------------------ decisions of AcquireImages
\* "if (deviceAccessStatus == "ReadWrite")": the master branch.
ConfiguresAsListenerToo(status) == TRUE
ConfiguresDevice(status) == status = "ReadWrite"

\* The calls of the master branch, in order.
MasterConfigCallsTwice ==
    << SetNode("Device", "AcquisitionMode", "Continuous"),
       SetNode("TLStream", "StreamAutoNegotiatePacketSize", "true"),
       SetNode("TLStream", "StreamPacketResendEnable", "true"),
       SetNode("Device", "AcquisitionMode", "Continuous") >>
MasterConfigCalls ==
    << SetNode("Device", "AcquisitionMode", "Continuous"),
       SetNode("TLStream", "StreamAutoNegotiatePacketSize", "true"),
       SetNode("TLStream", "StreamPacketResendEnable", "true") >>

\* "if (savedImageCount < 10)".
ShouldSaveOffByOne(saved) == saved <= SaveLimit
ShouldSave(saved) == saved < SaveLimit

\* The two breaks after the requeue: "if (escPressed) break;" and
\* "if (!isMaster && savedImageCount >= 10) break;".
LoopStopsIgnoringEsc(master, saved, esc) == ~master /\ saved >= SaveLimit
LoopStopsIgnoringRole(master, saved, esc) == esc \/ saved >= SaveLimit
LoopStopsLate(master, saved, esc) == esc \/ (~master /\ saved > SaveLimit)
LoopStops(master, saved, esc) == esc \/ (~master /\ saved >= SaveLimit)

\* The write-back at the end of AcquireImages.
RestoreCallsNone(status, initial) == << >>
RestoreCalls(status, initial) ==
    IF status = "ReadWrite"
    THEN << SetNode("Device", "AcquisitionMode", initial) >>
    ELSE << >>

\* -------------------------------------------------- SaveQueue operations
\* jobs.push_back / jobs.front / jobs.pop_front
PushFront(q, j) == << j >> \o q
PushBack(q, j) == Append(q, j)
Front(q) == Head(q)
\* A pop that empties the queue.
PopAll(q) == << >>
PopFront(q) == Tail(q)

\* "if (queue->stop && queue->jobs.empty()) break;"
WorkerExitsOnStopAlone(s, q) == s
WorkerExits(s, q) == s /\ q = << >>
\* A wait that returns whatever the state of the queue.
WaitPredicateAlways(s, q) == TRUE
\* The predicate of cv.wait.
WaitPredicate(s, q) == s \/ q # << >>

\* ------------------------------------------------------------- AcquireImages
\* Lines 429-440: read AcquisitionMode, enable multicast on the stream node map.
EnableMulticast ==
    /\ pc = "entry"
    /\ acquisitionModeInitial' = acquisitionMode
    /\ devLog' = Append(devLog, SetNode("TLStream", "StreamMulticastEnable", "true"))
    /\ pc' = "config"
    /\ UNCHANGED << deviceAccessStatus, acquisitionMode, streaming, nextFrameId, borrowed,
                    isMaster, imageCount, unreceivedImageCount, savedImageCount,
                    escPressed, pImage, job, noImagesDiag, failed >>
    /\ UNCHANGED << qVars, wVars, termVars, mainVars, dirVars, histVars >>

\* Lines 445-473: read DeviceAccessStatus; the master configures the device.
ConfigureRole ==
    /\ pc = "config"
    /\ IF ConfiguresDevice(deviceAccessStatus)
       THEN /\ devLog' = devLog \o MasterConfigCalls
            /\ acquisitionMode' = "Continuous"
       ELSE UNCHANGED << devLog, acquisitionMode >>
    /\ pc' = "start"
    /\ UNCHANGED << deviceAccessStatus, streaming, nextFrameId, borrowed >>
    /\ UNCHANGED << locVars, qVars, wVars, termVars, mainVars, dirVars, histVars >>

\* Line 478.
StartStream ==
    /\ pc = "start"
    /\ devLog' = Append(devLog, StreamCall("StartStream"))
    /\ streaming' = TRUE
    /\ pc' = "spawn"
    /\ UNCHANGED << deviceAccessStatus, acquisitionMode, nextFrameId, borrowed >>
    /\ UNCHANGED << locVars, qVars, wVars, termVars, mainVars, dirVars, histVars >>

\* A queue constructed with its stop flag already set.
StartSaveWorkerStopped ==
    /\ pc = "spawn"
    /\ stop' = TRUE
    /\ wpc' = "w_lock"
    /\ pc' = "term"
    /\ UNCHANGED << jobs, mutex, wjob >>
    /\ UNCHANGED << devVars, locVars, termVars, mainVars, dirVars, histVars >>

\* Lines 480-483: the queue, the worker thread and its guard.
StartSaveWorker ==
    /\ pc = "spawn"
    /\ stop' = FALSE
    /\ wpc' = "w_lock"
    /\ pc' = "term"
    /\ UNCHANGED << jobs, mutex, wjob >>
    /\ UNCHANGED << devVars, locVars, termVars, mainVars, dirVars, histVars >>

\* Lines 485-491: SetupTerminalForEsc (not a tty, or tcgetattr / tcsetattr
\* failing, leaves the watcher disabled) and the loop's locals.
SetupTerminalForEsc ==
    /\ pc = "term"
    /\ \E ok \in BOOLEAN :
         /\ enabled' = ok
         /\ termRaw' = ok
    /\ isMaster' = (deviceAccessStatus = "ReadWrite")
    /\ pc' = "get"
    /\ UNCHANGED << acquisitionModeInitial, imageCount, unreceivedImageCount,
                    savedImageCount, escPressed, pImage, job, noImagesDiag, failed >>
    /\ UNCHANGED << stdin, keysTyped >>
    /\ UNCHANGED << devVars, qVars, wVars, mainVars, dirVars, histVars >>

\* An unwind that runs no destructor: the exception goes straight to main.
UnwindWithoutGuards ==
    /\ failed' = TRUE
    /\ pc' = "thrown"

\* An unwind that runs saveGuard's destructor only (the terminal restore being
\* a plain call after the loop, not a guard).
UnwindWithoutTerminalGuard ==
    /\ failed' = TRUE
    /\ pc' = "stop_lock"

\* An exception leaves AcquireImages: the locals' destructors run next
\* (terminalGuard first, then saveGuard).
Unwind ==
    /\ failed' = TRUE
    /\ pc' = "term_restore"

\* Lines 506-509: imageCount++ and GetImage(TIMEOUT) returning a frame.
GetImageFrame ==
    /\ pc = "get"
    /\ imageCount < MaxAttempts
    /\ imageCount' = imageCount + 1
    /\ pImage' = nextFrameId
    /\ nextFrameId' = nextFrameId + 1
    /\ borrowed' = borrowed \cup {nextFrameId}
    /\ retrieved' = Append(retrieved, nextFrameId)
    /\ polls' = 0
    /\ pc' = "frame"
    /\ UNCHANGED << deviceAccessStatus, acquisitionMode, devLog, streaming >>
    /\ UNCHANGED << acquisitionModeInitial, isMaster, unreceivedImageCount,
                    savedImageCount, escPressed, job, noImagesDiag, failed >>
    /\ UNCHANGED << requeued, enqueued, written, destroyed, lastPoll, termRestores,
                    backlogAtStop, saveFailed >>
    /\ UNCHANGED << qVars, wVars, termVars, mainVars, dirVars >>

\* Lines 515-520: "if (CheckForEsc(...)) { escPressed = true; break; } continue;".
TimeoutBreaksAlways(esc) == TRUE
TimeoutBreaks(esc) == esc

\* Lines 506-521: imageCount++ and GetImage throwing TimeoutException.
GetImageTimeout ==
    /\ pc = "get"
    /\ imageCount < MaxAttempts
    /\ unreceivedImageCount < MaxTimeouts
    /\ imageCount' = imageCount + 1
    /\ unreceivedImageCount' = unreceivedImageCount + 1
    /\ Poll
    /\ polls' = 1
    /\ escPressed' = (escPressed \/ PollResult)
    /\ pc' = IF TimeoutBreaks(PollResult) THEN "after" ELSE "get"
    /\ UNCHANGED << acquisitionModeInitial, isMaster, savedImageCount, pImage, job,
                    noImagesDiag, failed >>
    /\ UNCHANGED << enabled, termRaw, keysTyped >>
    /\ UNCHANGED << retrieved, requeued, enqueued, written, destroyed, termRestores,
                    backlogAtStop, saveFailed >>
    /\ UNCHANGED << devVars, qVars, wVars, mainVars, dirVars >>

\* Lines 506-509: imageCount++ and GetImage throwing anything but a timeout.
GetImageError ==
    /\ pc = "get"
    /\ imageCount < MaxAttempts
    /\ imageCount' = imageCount + 1
    /\ polls' = 0
    /\ Unwind
    /\ UNCHANGED << acquisitionModeInitial, isMaster, unreceivedImageCount,
                    savedImageCount, escPressed, pImage, job, noImagesDiag >>
    /\ UNCHANGED << retrieved, requeued, enqueued, written, destroyed, lastPoll,
                    termRestores,
                    backlogAtStop, saveFailed >>
    /\ UNCHANGED << devVars, qVars, wVars, termVars, mainVars, dirVars >>

\* A notify that wakes nobody.
NotifiedLost(w) == w
\* cv.notify_one / cv.notify_all: the worker, if it sleeps in cv.wait, goes to
\* take the mutex again.
Notified(w) == IF w = "w_sleep" THEN "w_lock" ELSE w

\* Lines 533-540: below the limit, the frame is copied into a SaveJob.
CopyImage ==
    /\ pc = "frame"
    /\ ShouldSave(savedImageCount)
    /\ job' = [pImage |-> pImage, filename |-> pImage]
    /\ pc' = "enq_lock"
    /\ UNCHANGED << acquisitionModeInitial, isMaster, imageCount, unreceivedImageCount,
                    savedImageCount, escPressed, pImage, noImagesDiag, failed >>
    /\ UNCHANGED << devVars, qVars, wVars, termVars, mainVars, dirVars, histVars >>

\* Line 533: at the limit, the frame is not saved.
SkipSave ==
    /\ pc = "frame"
    /\ ~ShouldSave(savedImageCount)
    /\ pc' = "requeue"
    /\ UNCHANGED << acquisitionModeInitial, isMaster, imageCount, unreceivedImageCount,
                    savedImageCount, escPressed, pImage, job, noImagesDiag, failed >>
    /\ UNCHANGED << devVars, qVars, wVars, termVars, mainVars, dirVars, histVars >>

\* Line 539: ImageFactory::Copy throws.
CopyImageError ==
    /\ pc = "frame"
    /\ ShouldSave(savedImageCount)
    /\ Unwind
    /\ UNCHANGED << acquisitionModeInitial, isMaster, imageCount, unreceivedImageCount,
                    savedImageCount, escPressed, pImage, job, noImagesDiag >>
    /\ UNCHANGED << devVars, qVars, wVars, termVars, mainVars, dirVars, histVars >>

\* EnqueueSave, line 214: lock_guard takes the mutex.
EnqueueLock ==
    /\ pc = "enq_lock"
    /\ mutex = "free"
    /\ mutex' = "acq"
    /\ pc' = "enq_push"
    /\ UNCHANGED << jobs, stop >>
    /\ UNCHANGED << devVars, locVars, wVars, termVars, mainVars, dirVars, histVars >>

\* EnqueueSave, lines 215-216: push_back, the lock_guard releases.
EnqueuePush ==
    /\ pc = "enq_push"
    /\ jobs' = PushBack(jobs, job)
    /\ enqueued' = Append(enqueued, job)
    /\ mutex' = "free"
    /\ pc' = "enq_notify"
    /\ UNCHANGED stop
    /\ UNCHANGED << retrieved, requeued, written, destroyed, lastPoll, polls, termRestores,
                    backlogAtStop, saveFailed >>
    /\ UNCHANGED << devVars, locVars, wVars, termVars, mainVars, dirVars >>

\* EnqueueSave, line 217: notify_one; then savedImageCount++ (line 542).
EnqueueNotify ==
    /\ pc = "enq_notify"
    /\ wpc' = Notified(wpc)
    /\ savedImageCount' = savedImageCount + 1
    /\ job' = NoJob
    /\ pc' = "requeue"
    /\ UNCHANGED wjob
    /\ UNCHANGED << acquisitionModeInitial, isMaster, imageCount, unreceivedImageCount,
                    escPressed, pImage, noImagesDiag, failed >>
    /\ UNCHANGED << devVars, qVars, termVars, mainVars, dirVars, histVars >>

\* Line 548: RequeueBuffer(pImage).
RequeueBuffer ==
    /\ pc = "requeue"
    /\ borrowed' = borrowed \ {pImage}
    /\ requeued' = Append(requeued, pImage)
    /\ pc' = "poll"
    /\ UNCHANGED << deviceAccessStatus, acquisitionMode, devLog, streaming, nextFrameId >>
    /\ UNCHANGED << retrieved, enqueued, written, destroyed, lastPoll, polls, termRestores,
                    backlogAtStop, saveFailed >>
    /\ UNCHANGED << locVars, qVars, wVars, termVars, mainVars, dirVars >>

\* Line 548: RequeueBuffer throws.
RequeueBufferError ==
    /\ pc = "requeue"
    /\ Unwind
    /\ UNCHANGED << acquisitionModeInitial, isMaster, imageCount, unreceivedImageCount,
                    savedImageCount, escPressed, pImage, job, noImagesDiag >>
    /\ UNCHANGED << devVars, qVars, wVars, termVars, mainVars, dirVars, histVars >>

\* Lines 550-557: the poll of the frame path and the two breaks.
PollAndDecide ==
    /\ pc = "poll"
    /\ Poll
    /\ polls' = polls + 1
    /\ escPressed' = (escPressed \/ PollResult)
    /\ pc' = IF LoopStops(isMaster, savedImageCount, escPressed \/ PollResult)
             THEN "after" ELSE "get"
    /\ UNCHANGED << acquisitionModeInitial, isMaster, imageCount, unreceivedImageCount,
                    savedImageCount, pImage, job, noImagesDiag, failed >>
    /\ UNCHANGED << enabled, termRaw, keysTyped >>
    /\ UNCHANGED << retrieved, requeued, enqueued, written, destroyed, termRestores,
                    backlogAtStop, saveFailed >>
    /\ UNCHANGED << devVars, qVars, wVars, mainVars, dirVars >>

\* "if (unreceivedImageCount == imageCount)".
SomeTimedOut(unreceived, count) == unreceived > 0
AllTimedOut(unreceived, count) == unreceived = count

\* Lines 560-568: the diagnostic and StopStream.
StopStream ==
    /\ pc = "after"
    /\ noImagesDiag' = AllTimedOut(unreceivedImageCount, imageCount)
    /\ devLog' = Append(devLog, StreamCall("StopStream"))
    /\ streaming' = FALSE
    /\ pc' = "restore"
    /\ UNCHANGED << deviceAccessStatus, acquisitionMode, nextFrameId, borrowed >>
    /\ UNCHANGED << acquisitionModeInitial, isMaster, imageCount, unreceivedImageCount,
                    savedImageCount, escPressed, pImage, job, failed >>
    /\ UNCHANGED << qVars, wVars, termVars, mainVars, dirVars, histVars >>

\* Lines 571-574: the master writes AcquisitionMode back.
RestoreAcquisitionMode ==
    /\ pc = "restore"
    /\ devLog' = devLog \o RestoreCalls(deviceAccessStatus, acquisitionModeInitial)
    /\ acquisitionMode' = IF RestoreCalls(deviceAccessStatus, acquisitionModeInitial) # << >>
                          THEN acquisitionModeInitial ELSE acquisitionMode
    /\ pc' = "term_restore"
    /\ UNCHANGED << deviceAccessStatus, streaming, nextFrameId, borrowed >>
    /\ UNCHANGED << locVars, qVars, wVars, termVars, mainVars, dirVars, histVars >>

\* ~TerminalGuard: RestoreTerminal(settings), on return and on unwind.
RestoreTerminal ==
    /\ pc = "term_restore"
    /\ IF enabled
       THEN /\ termRaw' = FALSE
            /\ termRestores' = termRestores + 1
       ELSE UNCHANGED << termRaw, termRestores >>
    /\ pc' = "stop_lock"
    /\ UNCHANGED << enabled, stdin, keysTyped >>
    /\ UNCHANGED << retrieved, requeued, enqueued, written, destroyed, lastPoll, polls,
                    backlogAtStop, saveFailed >>
    /\ UNCHANGED << devVars, locVars, qVars, wVars, mainVars, dirVars >>

\* ~SaveWorkerGuard -> StopSaveWorker, line 224: take the mutex.
StopLock ==
    /\ pc = "stop_lock"
    /\ mutex = "free"
    /\ mutex' = "acq"
    /\ pc' = "stop_set"
    /\ UNCHANGED << jobs, stop >>
    /\ UNCHANGED << devVars, locVars, wVars, termVars, mainVars, dirVars, histVars >>

\* StopSaveWorker, lines 225-226: stop = true, release.
StopSet ==
    /\ pc = "stop_set"
    /\ stop' = TRUE
    /\ backlogAtStop' = (jobs # << >>)
    /\ mutex' = "free"
    /\ pc' = "stop_notify"
    /\ UNCHANGED jobs
    /\ UNCHANGED << retrieved, requeued, enqueued, written, destroyed, lastPoll, polls,
                    termRestores, saveFailed >>
    /\ UNCHANGED << devVars, locVars, wVars, termVars, mainVars, dirVars >>

\* StopSaveWorker, line 227: notify_all.
StopNotify ==
    /\ pc = "stop_notify"
    /\ wpc' = Notified(wpc)
    /\ pc' = "join"
    /\ UNCHANGED wjob
    /\ UNCHANGED << devVars, locVars, qVars, termVars, mainVars, dirVars, histVars >>

\* StopSaveWorker, line 229: join returns once the worker has left SaveWorker;
\* AcquireImages then returns to main, or the exception reaches main.
JoinWorker ==
    /\ pc = "join"
    /\ wpc = "w_exit"
    /\ pc' = IF failed THEN "thrown" ELSE "returned"
    /\ UNCHANGED << devVars, locVars, qVars, wVars, termVars, mainVars, dirVars, histVars >>

\* ---------------------------------------------------------------- SaveWorker
\* Line 181: unique_lock takes the mutex (on entry, and again after a wake-up).
WorkerLock ==
    /\ wpc = "w_lock"
    /\ mutex = "free"
    /\ mutex' = "worker"
    /\ wpc' = "w_wait"
    /\ UNCHANGED << jobs, stop, wjob >>
    /\ UNCHANGED << devVars, pc, locVars, termVars, mainVars, dirVars, histVars >>

\* Line 182: the predicate is false; cv.wait releases the mutex and sleeps.
WorkerSleep ==
    /\ wpc = "w_wait"
    /\ ~WaitPredicate(stop, jobs)
    /\ mutex' = "free"
    /\ wpc' = "w_sleep"
    /\ UNCHANGED << jobs, stop, wjob >>
    /\ UNCHANGED << devVars, pc, locVars, termVars, mainVars, dirVars, histVars >>

\* cv.wait may wake without a notify; it takes the mutex and tests again.
WorkerSpuriousWake ==
    /\ wpc = "w_sleep"
    /\ wpc' = "w_lock"
    /\ UNCHANGED wjob
    /\ UNCHANGED << devVars, pc, locVars, qVars, termVars, mainVars, dirVars, histVars >>

\* Lines 183-184: stop and nothing queued: leave the loop, the lock releases.
WorkerBreak ==
    /\ wpc = "w_wait"
    /\ WaitPredicate(stop, jobs)
    /\ WorkerExits(stop, jobs)
    /\ mutex' = "free"
    /\ wpc' = "w_exit"
    /\ UNCHANGED << jobs, stop, wjob >>
    /\ UNCHANGED << devVars, pc, locVars, termVars, mainVars, dirVars, histVars >>

\* What front() of an empty deque may give.
GarbageJob == [pImage |-> -1, filename |-> -1]

\* Lines 186-188: take the front job, pop it, the lock releases. (front() and
\* pop_front() of an empty deque are undefined.)
WorkerTake ==
    /\ wpc = "w_wait"
    /\ WaitPredicate(stop, jobs)
    /\ ~WorkerExits(stop, jobs)
    /\ IF jobs # << >>
       THEN /\ wjob' = Front(jobs)
            /\ jobs' = PopFront(jobs)
       ELSE /\ wjob' \in {NoJob, GarbageJob}
            /\ jobs' \in {jobs, << GarbageJob >>}
    /\ mutex' = "free"
    /\ wpc' = "w_save"
    /\ UNCHANGED stop
    /\ UNCHANGED << devVars, pc, locVars, termVars, mainVars, dirVars, histVars >>

\* Where the worker goes after the try block of lines 190-205: a SaveImage that
\* throws leaves the thread function (the three catch clauses taken away).
AfterSaveUncaught(ok) == IF ok THEN "w_destroy" ELSE "w_exit"
\* Lines 190-205: whatever SaveImage throws is caught and printed; the worker
\* goes on to line 207 either way.
AfterSave(ok) == "w_destroy"

\* Lines 190-205: SaveImage(job.pImage, job.filename) returns or throws
\* (conversion or write failure).
WorkerSave ==
    /\ wpc = "w_save"
    /\ written' = Append(written, wjob)
    /\ \E ok \in BOOLEAN :
         /\ wpc' = AfterSave(ok)
         /\ saveFailed' = (saveFailed \/ ~ok)
    /\ UNCHANGED wjob
    /\ UNCHANGED << retrieved, requeued, enqueued, destroyed, lastPoll, polls, termRestores,
                    backlogAtStop >>
    /\ UNCHANGED << devVars, pc, locVars, qVars, termVars, mainVars, dirVars >>

\* Line 207: ImageFactory::Destroy(job.pImage).
WorkerDestroy ==
    /\ wpc = "w_destroy"
    /\ destroyed' = Append(destroyed, wjob)
    /\ wjob' = NoJob
    /\ wpc' = "w_lock"
    /\ UNCHANGED << retrieved, requeued, enqueued, written, lastPoll, polls, termRestores,
                    backlogAtStop, saveFailed >>
    /\ UNCHANGED << devVars, pc, locVars, qVars, termVars, mainVars, dirVars >>

\* ------------------------------------------------------------------------ main
\* Lines 661-666: AcquireImages returned; "Example complete" is printed.
MainComplete ==
    /\ pc = "returned"
    /\ exitStatus' = 0
    /\ pc' = "exit"
    /\ UNCHANGED exceptionThrown
    /\ UNCHANGED << devVars, locVars, qVars, wVars, termVars, dirVars, histVars >>

\* Lines 668-682 and 688-689: the exception is caught; main returns -1.
MainCatch ==
    /\ pc = "thrown"
    /\ exceptionThrown' = TRUE
    /\ exitStatus' = -1
    /\ pc' = "exit"
    /\ UNCHANGED << devVars, locVars, qVars, wVars, termVars, dirVars, histVars >>

\* ----------------------------------------------------------------- environment
\* The operator types a key while AcquireImages has not left its loop.
BeforeLoopExit == pc \in {"entry", "config", "start", "spawn", "term", "get", "frame",
                          "enq_lock", "enq_push", "enq_notify", "requeue", "poll"}

KeyPress ==
    /\ BeforeLoopExit
    /\ ~keysTyped
    /\ \E burst \in KeyBursts : stdin' = stdin \o burst
    /\ keysTyped' = TRUE
    /\ UNCHANGED << enabled, termRaw >>
    /\ UNCHANGED << devVars, pc, locVars, qVars, wVars, mainVars, dirVars, histVars >>

Next ==
    \/ EnableMulticast
    \/ ConfigureRole
    \/ StartStream
    \/ StartSaveWorker
    \/ SetupTerminalForEsc
    \/ GetImageFrame
    \/ GetImageTimeout
    \/ GetImageError
    \/ CopyImage
    \/ SkipSave
    \/ CopyImageError
    \/ EnqueueLock
    \/ EnqueuePush
    \/ EnqueueNotify
    \/ RequeueBuffer
    \/ RequeueBufferError
    \/ PollAndDecide
    \/ StopStream
    \/ RestoreAcquisitionMode
    \/ RestoreTerminal
    \/ StopLock
    \/ StopSet
    \/ StopNotify
    \/ JoinWorker
    \/ WorkerLock
    \/ WorkerSleep
    \/ WorkerSpuriousWake
    \/ WorkerBreak
    \/ WorkerTake
    \/ WorkerSave
    \/ WorkerDestroy
    \/ MainComplete
    \/ MainCatch
    \/ KeyPress

Spec == Init /\ [][Next]_vars

\* ------------------------------------------------- short runs, fairly scheduled
\* GetImage calls of a short run.
MaxLiveAttempts == 3
ShortRun == imageCount < MaxLiveAttempts

\* Next for runs of at most MaxLiveAttempts frame requests (the save limit is
\* out of their reach, so the step that skips the save never is enabled).
NextLive ==
    \/ EnableMulticast
    \/ ConfigureRole
    \/ StartStream
    \/ StartSaveWorker
    \/ SetupTerminalForEsc
    \/ (ShortRun /\ GetImageFrame)
    \/ (ShortRun /\ GetImageTimeout)
    \/ (ShortRun /\ GetImageError)
    \/ CopyImage
    \/ CopyImageError
    \/ EnqueueLock
    \/ EnqueuePush
    \/ EnqueueNotify
    \/ RequeueBuffer
    \/ RequeueBufferError
    \/ PollAndDecide
    \/ StopStream
    \/ RestoreAcquisitionMode
    \/ RestoreTerminal
    \/ StopLock
    \/ StopSet
    \/ StopNotify
    \/ JoinWorker
    \/ WorkerLock
    \/ WorkerSleep
    \/ WorkerSpuriousWake
    \/ WorkerBreak
    \/ WorkerTake
    \/ WorkerSave
    \/ WorkerDestroy
    \/ MainComplete
    \/ MainCatch
    \/ KeyPress

\* The steps of the SaveWorker thread (a spurious wake-up is not owed to it).
WorkerStep ==
    \/ WorkerLock
    \/ WorkerSleep
    \/ WorkerBreak
    \/ WorkerTake
    \/ WorkerSave
    \/ WorkerDestroy
\* The steps of StopSaveWorker on the acquisition thread.
ShutdownStep ==
    \/ StopLock
    \/ StopSet
    \/ StopNotify
    \/ JoinWorker

\* Both threads are scheduled while they can run, and a SaveImage call ends.
SpecLive ==
    /\ Init
    /\ [][NextLive]_vars
    /\ WF_vars(WorkerStep)
    /\ WF_vars(ShutdownStep)

\* ------------------------------------------- the output-directory step, alone
\* Lines 139-150: the path is built and EnsureDir creates what is missing
\* (a false result is the runtime_error CreateOutputDir throws).
CreateOutputDir ==
    /\ Len(dRuns) < MaxDirRuns
    /\ LET outputDir == OutputDirPath(dExePath, dClock)
           run == EnsureDir(outputDir, dirs, denied)
       IN /\ dirs' = run.dirs
          /\ dRuns' = Append(dRuns, [path |-> outputDir, clock |-> dClock, ok |-> run.ok,
                                     before |-> dirs, after |-> run.dirs])
    /\ UNCHANGED << dExePath, dClock, denied, dPath >>
    /\ UNCHANGED << devVars, pc, locVars, qVars, wVars, termVars, mainVars, histVars >>

\* The clock reaches the next second.
ClockTick ==
    /\ dClock < MaxClock
    /\ dClock' = dClock + 1
    /\ UNCHANGED << dExePath, dirs, denied, dRuns, dPath >>
    /\ UNCHANGED << devVars, pc, locVars, qVars, wVars, termVars, mainVars, histVars >>

NextDir ==
    \/ CreateOutputDir
    \/ ClockTick

SpecDir == InitDir /\ [][NextDir]_vars

\* ------------------------------------------------------- EnsureDir, alone
\* Bound: the length of the path given to EnsureDir.
MaxPathLen == 4

\* Before an EnsureDir call on any path up to the bound: some of the
\* directories it names exist (each with its parent), some are refused.
InitPath ==
    /\ InitRun
    /\ dExePath = << "/", "a" >>
    /\ dClock = 1
    /\ dPath \in Strings(MaxPathLen)
    /\ dirs \in { fs \in SUBSET PathPrefixes(dPath) : \A d \in fs : ParentExists(d, fs) }
    /\ denied \in SUBSET (PathPrefixes(dPath) \ dirs)
    /\ dRuns = << >>

\* One call EnsureDir(dPath).
EnsureDirCall ==
    /\ Len(dRuns) < MaxDirRuns
    /\ LET run == EnsureDir(dPath, dirs, denied)
       IN /\ dirs' = run.dirs
          /\ dRuns' = Append(dRuns, [path |-> dPath, clock |-> dClock, ok |-> run.ok,
                                     before |-> dirs, after |-> run.dirs])
    /\ UNCHANGED << dExePath, dClock, denied, dPath >>
    /\ UNCHANGED << devVars, pc, locVars, qVars, wVars, termVars, mainVars, histVars >>

NextPath == EnsureDirCall

SpecPath == InitPath /\ [][NextPath]_vars

\* ===================================================================== claims
\* The SaveJob the loop builds for frame f (lines 535-540).
JobOf(f) == [pImage |-> f, filename |-> f]
JobsOf(fs) == [i \in 1..Len(fs) |-> JobOf(fs[i])]
IsPrefix(a, b) == Len(a) <= Len(b) /\ \A i \in 1..Len(a) : a[i] = b[i]
Count(log, call) == Cardinality({ i \in 1..Len(log) : log[i] = call })

\* The loop has been left (by a break or by an exception).
AfterLoop == pc \in {"after", "restore", "term_restore", "stop_lock", "stop_set",
                     "stop_notify", "join", "returned", "thrown", "exit"}
\* The loop has been left by one of its breaks.
LoopBroke == AfterLoop /\ ~failed
\* AcquireImages is over: it returned to main or its exception reached main.
Exited == pc \in {"returned", "thrown", "exit"}
\* The save step of the current iteration is under way.
InSaveStep == pc \in {"frame", "enq_lock", "enq_push"}

\* C1: in every run whose SDK calls raise nothing but timeouts, outside the save
\* step of an iteration, the jobs enqueued so far are the copies of the first
\* min(10, n) of the n frames retrieved so far, in arrival order; in every run
\* the saved-frame counter and the number of enqueued jobs never exceed 10.
C1_EnqueuedIsFirstTen ==
    /\ savedImageCount <= SaveLimit
    /\ Len(enqueued) <= SaveLimit
    /\ (~failed /\ ~InSaveStep) =>
          enqueued = JobsOf(SubSeq(retrieved, 1, Min(SaveLimit, Len(retrieved))))
    /\ pc # "enq_notify" => savedImageCount = Len(enqueued)

\* A master run that retrieved more than 10 frames and returned.
C1_Witness ==
    /\ pc = "exit" /\ ~failed
    /\ deviceAccessStatus = "ReadWrite"
    /\ Len(retrieved) > SaveLimit
    /\ Len(enqueued) = SaveLimit
    /\ keysTyped

\* C2: once AcquireImages is over (returned or unwound), the queue is empty, the
\* worker has left SaveWorker, and every job ever enqueued was dequeued, passed
\* to SaveImage and destroyed.
C2_DrainedBeforeReturn ==
    Exited => /\ jobs = << >>
              /\ wjob = NoJob
              /\ wpc = "w_exit"
              /\ written = enqueued
              /\ destroyed = enqueued

\* A cancelled run that set stop while jobs were still queued, and returned.
C2_Witness ==
    /\ pc = "returned"
    /\ escPressed
    /\ backlogAtStop
    /\ Len(enqueued) >= 2

\* C3: the jobs passed to SaveImage so far are, in order, the first of the jobs
\* enqueued; a job's write begins only when every earlier job's write is over
\* and its copy destroyed.
C3_WrittenInEnqueueOrder ==
    /\ IsPrefix(written, enqueued)
    /\ IsPrefix(destroyed, written)
    /\ Len(written) - Len(destroyed) <= 1
    /\ wpc = "w_save" => (destroyed = written /\ wjob = enqueued[Len(written) + 1])

\* The worker is about to write the third job while two more wait behind it.
C3_Witness ==
    /\ wpc = "w_save"
    /\ Len(written) = 2
    /\ Len(jobs) >= 2

\* C4: a listener requests a frame only while fewer than 10 frames were handed
\* to persistence and no cancellation was seen; when its loop breaks without
\* cancellation, exactly 10 frames were retrieved, all 10 were enqueued in
\* arrival order and all 10 were requeued.
C4_ListenerStopsAtLimit ==
    deviceAccessStatus = "ReadOnly" =>
        /\ pc = "get" => (savedImageCount < SaveLimit /\ ~escPressed)
        /\ LoopBroke => (escPressed \/ savedImageCount = SaveLimit)
        /\ (LoopBroke /\ ~escPressed) =>
              /\ Len(retrieved) = SaveLimit
              /\ enqueued = JobsOf(retrieved)
              /\ requeued = retrieved

\* A listener that returned after 10 saves without cancellation, a key other
\* than ESC having been typed.
C4_Witness ==
    /\ deviceAccessStatus = "ReadOnly"
    /\ pc = "exit" /\ ~failed /\ ~escPressed
    /\ savedImageCount = SaveLimit
    /\ enabled /\ keysTyped

\* C5: a master's loop breaks only with cancellation seen by the last poll;
\* it goes on requesting frames at the save limit; when it breaks after k
\* frames, all k were requeued and the jobs enqueued are frames 1..min(10,k).
C5_MasterStopsOnlyOnCancel ==
    deviceAccessStatus = "ReadWrite" =>
        /\ LoopBroke => (escPressed /\ lastPoll.ret)
        /\ LoopBroke =>
              /\ requeued = retrieved
              /\ enqueued = JobsOf(SubSeq(retrieved, 1, Min(SaveLimit, Len(retrieved))))
        /\ (pc \in {"get", "frame", "requeue", "poll"} /\ ~failed) => ~escPressed

\* A master cancelled after frame 11: 11 retrieved and requeued, 10 saved.
C5_Witness ==
    /\ deviceAccessStatus = "ReadWrite"
    /\ pc = "exit" /\ ~failed
    /\ Len(retrieved) = SaveLimit + 1
    /\ Len(requeued) = SaveLimit + 1
    /\ Len(enqueued) = SaveLimit

\* C6 as claimed: a listener issues no SetNodeValue on any node map.
C6_NoSetNodeAsListener ==
    deviceAccessStatus = "ReadOnly" => \A i \in 1..Len(devLog) : devLog[i].op # "SetNodeValue"

\* C6, amended: the only SetNodeValue a listener issues is the one write of
\* StreamMulticastEnable = true on the transport-layer stream node map; it
\* writes no node of the device node map and no stream-robustness node, and the
\* device's AcquisitionMode keeps the value it had at entry.
C6_ListenerOnlyEnablesMulticast ==
    deviceAccessStatus = "ReadOnly" =>
        /\ \A i \in 1..Len(devLog) :
              devLog[i].op = "SetNodeValue" =>
                  devLog[i] = SetNode("TLStream", "StreamMulticastEnable", "true")
        /\ Count(devLog, SetNode("TLStream", "StreamMulticastEnable", "true")) <= 1
        /\ pc # "entry" => acquisitionMode = acquisitionModeInitial

\* A listener run that is over, its one multicast write logged.
C6_Witness ==
    /\ deviceAccessStatus = "ReadOnly"
    /\ pc = "exit"
    /\ Count(devLog, SetNode("TLStream", "StreamMulticastEnable", "true")) = 1
    /\ Len(retrieved) >= 1

\* Every device call of a complete master run, in order.
MasterRunCalls ==
    << SetNode("TLStream", "StreamMulticastEnable", "true") >>
    \o MasterConfigCalls
    \o << StreamCall("StartStream"), StreamCall("StopStream"),
          SetNode("Device", "AcquisitionMode", acquisitionModeInitial) >>

\* C7: in the master role the device calls issued so far are always the first
\* of: multicast enable, the three configuration calls, StartStream, StopStream,
\* write-back of the AcquisitionMode read at entry (so none is issued twice and
\* the configuration precedes StartStream); the configuration and StartStream
\* are done before the first frame request; and once the loop has broken
\* (cancellation in mid-stream included) and the write-back step is passed, the
\* whole sequence was issued and the node holds the value read at entry.
C7_MasterConfiguresAndRestoresOnce ==
    deviceAccessStatus = "ReadWrite" =>
        /\ IsPrefix(devLog, MasterRunCalls)
        /\ imageCount > 0 => Len(devLog) >= Len(MasterConfigCalls) + 2
        /\ (~AfterLoop /\ Len(devLog) > 1) => acquisitionMode = "Continuous"
        /\ (LoopBroke /\ pc \notin {"after", "restore"}) =>
              /\ devLog = MasterRunCalls
              /\ acquisitionMode = acquisitionModeInitial

\* A master whose mode was SingleFrame, cancelled in mid-stream, has returned.
C7_Witness ==
    /\ deviceAccessStatus = "ReadWrite"
    /\ pc = "exit" /\ ~failed /\ escPressed
    /\ Len(retrieved) \in 1..(SaveLimit - 1)
    /\ acquisitionModeInitial = "SingleFrame"
    /\ acquisitionMode = "SingleFrame"

\* C8 as claimed: when AcquireImages is over, however the loop was left, the
\* stream was stopped once and is not running, and the master has written the
\* original AcquisitionMode back (the node holds the value read at entry).
C8_StreamStoppedAndModeRestoredOnEveryExit ==
    Exited =>
        /\ ~streaming
        /\ Count(devLog, StreamCall("StopStream")) = 1
        /\ deviceAccessStatus = "ReadWrite" =>
              /\ devLog[Len(devLog)] = SetNode("Device", "AcquisitionMode", acquisitionModeInitial)
              /\ acquisitionMode = acquisitionModeInitial

\* C9 as claimed: at most one frame is borrowed at any time; outside the span
\* from GetImage's return to RequeueBuffer none is borrowed and every frame
\* retrieved so far was requeued, once, in order; so at every poll of the ESC
\* watcher, at every frame request and after the loop nothing is held.
C9_FrameReturnedWithinIteration ==
    /\ Cardinality(borrowed) <= 1
    /\ pc \notin {"frame", "enq_lock", "enq_push", "enq_notify", "requeue"} =>
          (borrowed = {} /\ requeued = retrieved)

\* C10: the last CheckForEsc call returned true exactly when the watcher was
\* enabled and byte 27 was among the bytes pending at the call.
C10_EscSeenIffPending ==
    lastPoll.ret = (lastPoll.on /\ ESC \in Range(lastPoll.pending))

\* A poll of an enabled watcher that found ESC behind another key.
C10_Witness ==
    /\ lastPoll.on
    /\ lastPoll.pending = << OtherKey, ESC >>
    /\ lastPoll.ret
    /\ escPressed

\* C11 as claimed: after a poll of an enabled watcher that found bytes pending,
\* none of them is left unread on stdin (the operator types one burst per run,
\* so whatever is on stdin after such a poll was pending at it).
C11_PollDrainsAllPending ==
    (lastPoll.on /\ lastPoll.pending # << >>) => stdin = << >>

\* C12: the terminal is in raw mode only if SetupTerminalForEsc enabled the
\* watcher; the original mode is never written back twice; once AcquireImages is
\* over, by return or by unwind, it was written back exactly once if the mode had
\* been changed and not at all otherwise, and the terminal is not in raw mode.
C12_TerminalRestoredOnce ==
    /\ termRaw => enabled
    /\ termRestores <= 1
    /\ (termRestores = 1) => (enabled /\ ~termRaw)
    /\ (enabled /\ pc \in {"get", "frame", "enq_lock", "enq_push", "enq_notify",
                           "requeue", "poll", "after", "restore", "term_restore"})
          => (termRaw /\ termRestores = 0)
    /\ Exited => (termRestores = (IF enabled THEN 1 ELSE 0) /\ ~termRaw)

\* An unwind after an exception, the terminal mode having been changed: the
\* exception has reached main and the mode was written back once.
C12_Witness ==
    /\ pc = "thrown"
    /\ enabled
    /\ termRestores = 1
    /\ Len(retrieved) >= 1

\* C13: a CreateOutputDir call made when every directory its path names already
\* exists reports success and leaves the set of existing directories as it was;
\* a successful call leaves every directory of its path existing; so a call
\* repeated within the same second after a successful one succeeds, yields the
\* same path and creates nothing.
C13_CreateAgainIsNoOp ==
    \A k \in 1..Len(dRuns) :
        /\ PathPrefixes(dRuns[k].path) \subseteq dRuns[k].before
              => (dRuns[k].ok /\ dRuns[k].after = dRuns[k].before)
        /\ dRuns[k].ok => PathPrefixes(dRuns[k].path) \subseteq dRuns[k].after
        /\ (k > 1 /\ dRuns[k - 1].ok /\ dRuns[k].clock = dRuns[k - 1].clock)
              => /\ dRuns[k].ok
                 /\ dRuns[k].path = dRuns[k - 1].path
                 /\ dRuns[k].after = dRuns[k - 1].after

\* Two calls in the same second: the first created directories, the second
\* found them all.
C13_Witness ==
    /\ Len(dRuns) = 2
    /\ dRuns[1].ok
    /\ dRuns[1].after # dRuns[1].before
    /\ dRuns[2].clock = dRuns[1].clock
    /\ dRuns[2].ok
    /\ dRuns[2].after = dRuns[2].before

\* C14: under fair scheduling of the two threads, SaveImage calls ending, once
\* the stop flag is set the worker writes and destroys every job still queued,
\* leaves its loop, and join returns to the acquisition thread: the worker does
\* not sleep on, and the shutdown does not deadlock.
C14_StopLeadsToDrainAndJoin ==
    stop ~> /\ pc \in {"returned", "thrown", "exit"}
            /\ wpc = "w_exit"
            /\ jobs = << >>
            /\ written = enqueued
            /\ destroyed = enqueued

\* The stop flag was set while the worker slept in cv.wait, jobs having been
\* saved before; the notify_all is still to come.
C14_Witness ==
    /\ stop
    /\ pc = "stop_notify"
    /\ wpc = "w_sleep"
    /\ Len(enqueued) >= 1

\* The step that ends an iteration of the loop: the timeout handler (lines
\* 511-521) or the poll after the requeue (lines 550-557).
TimeoutStep == unreceivedImageCount' # unreceivedImageCount
IterationEnds == TimeoutStep \/ (pc = "poll" /\ pc' # "poll")

\* C15: in either role, a step in which GetImage times out adds one to the
\* attempt counter and one to the unreceived counter, retrieves, copies and
\* enqueues nothing, calls CheckForEsc once, on what is pending, and raises no
\* exception; the loop is left if that call returned true and goes on to the
\* next GetImage otherwise.
C15_TimeoutCountsPollsAndContinues ==
    [][ TimeoutStep =>
          /\ pc = "get"
          /\ imageCount' = imageCount + 1
          /\ unreceivedImageCount' = unreceivedImageCount + 1
          /\ UNCHANGED << savedImageCount, jobs, enqueued, retrieved, borrowed, job, failed >>
          /\ polls' = 1
          /\ lastPoll'.pending = stdin
          /\ escPressed' = lastPoll'.ret
          /\ pc' = IF lastPoll'.ret THEN "after" ELSE "get" ]_vars

\* A listener whose first request timed out with a key other than ESC pending:
\* both counters at 1, the key read, the next request due.
C15_Witness ==
    /\ deviceAccessStatus = "ReadOnly"
    /\ pc = "get"
    /\ imageCount = 1
    /\ unreceivedImageCount = 1
    /\ polls = 1
    /\ lastPoll.on
    /\ lastPoll.pending = << OtherKey >>
    /\ ~lastPoll.ret

\* C16 as claimed: whenever ESC is pending at the poll that ends an iteration,
\* the loop is left in that iteration.
C16_EscPendingAtPollExits ==
    [][ (IterationEnds /\ ESC \in Range(stdin)) => pc' = "after" ]_vars

\* C16, amended: CheckForEsc is called once in every iteration that runs to its
\* end, at its end, on the timeout path and on the frame path alike, and nowhere
\* else; the loop is left by a break only in that step, which touches neither
\* the queue nor the worker; if the watcher is enabled and ESC is pending at
\* that call, the loop is left in that step; once left, no frame is requested.
C16_PolledOncePerIterationExitsOnEsc ==
    [][ /\ IterationEnds => (polls' = 1 /\ lastPoll'.pending = stdin)
        /\ IterationEnds => UNCHANGED << jobs, wpc, wjob, written, destroyed, borrowed >>
        /\ (lastPoll' # lastPoll \/ polls' > polls) => IterationEnds
        /\ (pc' = "after" /\ pc # "after") => IterationEnds
        /\ (IterationEnds /\ enabled /\ ESC \in Range(stdin)) => (pc' = "after" /\ escPressed')
        /\ AfterLoop => (AfterLoop' /\ imageCount' = imageCount) ]_vars

\* ESC typed while a frame was being handled: the watcher enabled, the frame
\* requeued, the one poll of that iteration saw ESC and the loop was left.
C16_Witness ==
    /\ pc = "after"
    /\ enabled
    /\ escPressed
    /\ lastPoll.ret
    /\ polls = 1
    /\ unreceivedImageCount = 0
    /\ Len(retrieved) >= 1
    /\ requeued = retrieved

\* The job in the worker's hands, not yet passed to SaveImage.
InHand == IF wpc = "w_save" THEN << wjob >> ELSE << >>

\* C17: the worker owns the queue mutex only between taking it and leaving the
\* wait / break / pop section, never while it saves or destroys a job; the
\* acquisition thread owns it only inside EnqueueSave and StopSaveWorker; each
\* pop takes one job: the jobs enqueued are, in order, those already passed to
\* SaveImage, the one in the worker's hands, those still queued; so when
\* EnqueueSave asks for the mutex while a job is saved or destroyed, it is free.
C17_SaveOutsideTheLock ==
    /\ (mutex = "worker") = (wpc = "w_wait")
    /\ (mutex = "acq") = (pc \in {"enq_push", "stop_set"})
    /\ wpc \in {"w_save", "w_destroy"} => (wjob # NoJob /\ mutex # "worker")
    /\ wpc \notin {"w_save", "w_destroy"} => wjob = NoJob
    /\ enqueued = written \o InHand \o jobs
    /\ (pc = "enq_lock" /\ wpc \in {"w_save", "w_destroy"}) => mutex = "free"

\* EnqueueSave holds the mutex and is about to push while the worker is inside
\* SaveImage with another job queued behind.
C17_Witness ==
    /\ wpc = "w_save"
    /\ pc = "enq_push"
    /\ mutex = "acq"
    /\ Len(jobs) >= 1

\* C18: the step in which SaveImage is called on a job, whether it returns or
\* throws, takes the worker to the Destroy of that job and changes nothing of
\* the acquisition thread, the device or the queue; each Destroy releases the
\* copy of the job last passed to SaveImage, so the copies destroyed are always
\* the first of those passed to SaveImage, each once; after it the worker goes
\* back for the next job, and it leaves its loop only from the wait, on stop
\* with an empty queue.
C18_SaveFailureIsPerJob ==
    [][ /\ written' # written =>
              /\ wpc = "w_save"
              /\ written' = Append(written, wjob)
              /\ wpc' = "w_destroy"
              /\ wjob' = wjob
              /\ UNCHANGED << pc, locVars, devVars, qVars, mainVars >>
        /\ destroyed' # destroyed =>
              /\ wpc = "w_destroy"
              /\ destroyed' = Append(destroyed, wjob)
              /\ destroyed' = written
              /\ wpc' = "w_lock"
        /\ (wpc' = "w_exit" /\ wpc # "w_exit") =>
              (wpc = "w_wait" /\ stop /\ jobs = << >>)
        /\ wpc = "w_exit" => wpc' = "w_exit" ]_vars

\* A SaveImage call has thrown, its job's copy was destroyed, and the worker
\* is saving a later job while the acquisition loop goes on.
C18_Witness ==
    /\ saveFailed
    /\ wpc = "w_save"
    /\ Len(written) >= 1
    /\ destroyed = written
    /\ ~failed
    /\ pc = "get"

\* StopSaveWorker has set the flag (line 225) or is past it.
PastStopSet == pc \in {"stop_notify", "join", "returned", "thrown", "exit"}

\* C19: the stop flag is set exactly when StopSaveWorker has passed its
\* "stop = true", which the acquisition thread reaches only after the loop, on
\* return and on unwind alike; once set it stays set, and from then on nothing
\* is pushed on the queue and no EnqueueSave is entered.
C19_NoEnqueueAfterStop ==
    [][ /\ stop' = PastStopSet'
        /\ stop => (stop' /\ enqueued' = enqueued /\ Len(jobs') <= Len(jobs))
        /\ enqueued' # enqueued => (pc = "enq_push" /\ ~stop /\ ~stop')
        /\ (stop' /\ ~stop) => (pc = "stop_set" /\ mutex = "acq") ]_vars

\* An exception left the loop after jobs had been enqueued; stop is set and
\* StopSaveWorker waits in join while the worker still has a job to write.
C19_Witness ==
    /\ stop
    /\ failed
    /\ pc = "join"
    /\ Len(enqueued) >= 2
    /\ jobs # << >>

\* C20: while the loop runs no diagnostic is printed; once the loop is left and
\* the test of line 560 passed or skipped by an unwind, the diagnostic was
\* printed exactly when every GetImage call of the run timed out, which for a
\* loop left by a break is exactly when no frame was retrieved; it is printed
\* only when the loop was left on cancellation, raises nothing, and the run that
\* printed it stops the stream, restores the master's AcquisitionMode, drains
\* the worker and returns 0 like any other.
C20_DiagnosticIffAllTimedOut ==
    /\ pc \notin {"restore", "term_restore", "stop_lock", "stop_set", "stop_notify",
                  "join", "returned", "thrown", "exit"} => ~noImagesDiag
    /\ (AfterLoop /\ pc # "after") =>
          noImagesDiag = (unreceivedImageCount = imageCount)
    /\ (LoopBroke /\ pc # "after") =>
          noImagesDiag = (retrieved = << >>)
    /\ noImagesDiag =>
          /\ ~failed
          /\ ~streaming
          /\ Count(devLog, StreamCall("StopStream")) = 1
          /\ escPressed
          /\ imageCount >= 1
    /\ (noImagesDiag /\ pc \notin {"restore"}) =>
          (deviceAccessStatus = "ReadWrite" =>
              /\ devLog[Len(devLog)] = SetNode("Device", "AcquisitionMode", acquisitionModeInitial)
              /\ acquisitionMode = acquisitionModeInitial)
    /\ (noImagesDiag /\ Exited) =>
          /\ pc \in {"returned", "exit"}
          /\ wpc = "w_exit"
          /\ jobs = << >>
          /\ ~exceptionThrown
          /\ exitStatus \in {-2, 0}

\* A master whose only request timed out with ESC pending: the diagnostic was
\* printed, the mode restored, and main returned 0.
C20_Witness ==
    /\ deviceAccessStatus = "ReadWrite"
    /\ pc = "exit"
    /\ noImagesDiag
    /\ imageCount = 1
    /\ unreceivedImageCount = 1
    /\ exitStatus = 0
    /\ acquisitionModeInitial = "SingleFrame"
    /\ acquisitionMode = "SingleFrame"

\* C21: an exception thrown on the acquisition thread once the worker runs
\* (by GetImage, by Copy, by RequeueBuffer) reaches main only after both guards
\* have run: when it arrives there the terminal is out of raw mode (the mode
\* written back once if it had been changed), stop is set, the worker has left
\* SaveWorker with the queue empty, and every job enqueued before the failure
\* was passed to SaveImage and destroyed; main then sets exceptionThrown and
\* returns -1, and it returns 0 only when nothing was thrown.
C21_FailureTornDownThenReported ==
    /\ failed => wpc # "w_none"
    /\ (failed /\ pc \in {"thrown", "exit"}) =>
          /\ ~termRaw
          /\ termRestores = (IF enabled THEN 1 ELSE 0)
          /\ stop
          /\ wpc = "w_exit"
          /\ jobs = << >>
          /\ written = enqueued
          /\ destroyed = enqueued
    /\ pc = "thrown" => (failed /\ ~exceptionThrown /\ exitStatus = -2)
    /\ pc = "exit" => /\ exceptionThrown = failed
                      /\ exitStatus = (IF failed THEN -1 ELSE 0)
    /\ failed => pc \notin {"returned"}

\* Copy or RequeueBuffer threw (the frame is still held) while jobs were queued
\* and the terminal was in raw mode; the worker drained them, the mode was
\* restored, main returned -1.
C21_Witness ==
    /\ pc = "exit"
    /\ failed
    /\ exitStatus = -1
    /\ enabled
    /\ backlogAtStop
    /\ Len(enqueued) >= 2
    /\ Cardinality(borrowed) = 1

\* The components of a path from index i on (start is where the current one
\* began): the pieces between slashes, the empty ones left out, as the
\* filesystem resolves a path.
RECURSIVE ComponentsFrom(_, _, _)
ComponentsFrom(path, i, start) ==
    IF i > Len(path) + 1 THEN << >>
    ELSE IF i = Len(path) + 1 \/ path[i] = "/"
    THEN (IF i > start THEN << SubSeq(path, start, i - 1) >> ELSE << >>)
         \o ComponentsFrom(path, i + 1, i + 1)
    ELSE ComponentsFrom(path, i + 1, start)
Components(path) == ComponentsFrom(path, 1, 1)

\* The first k components joined by "/".
RECURSIVE JoinFirst(_, _)
JoinFirst(comps, k) ==
    IF k = 1 THEN comps[1] ELSE JoinFirst(comps, k - 1) \o << "/" >> \o comps[k]

\* The directories a path names, shortest first: "/a/b" names "/a", "/a/b";
\* "a/b" names "a", "a/b".
DirsNamed(path) ==
    [k \in 1..Len(Components(path)) |->
        (IF path[1] = "/" THEN << "/" >> ELSE << >>) \o JoinFirst(Components(path), k)]

\* Create-if-missing applied to a list of directories in order, stopping at the
\* first that cannot be created for a reason other than "already exists".
RECURSIVE CreateEachIfMissing(_, _, _)
CreateEachIfMissing(ds, fs, den) ==
    IF ds = << >> THEN [ok |-> TRUE, dirs |-> fs]
    ELSE IF Mkdir(Head(ds), fs, den).errno \notin {"", "EEXIST"}
    THEN [ok |-> FALSE, dirs |-> fs]
    ELSE CreateEachIfMissing(Tail(ds), Mkdir(Head(ds), fs, den).dirs, den)

\* C22 as claimed: for every non-empty path, an EnsureDir call has the result
\* and the effect of create-if-missing applied to each directory the path
\* names, shortest first, the components joined by "/": it returns false
\* exactly when one of them cannot be created for a reason other than
\* "already exists", and the directories existing afterwards are those.
C22_EnsureDirCreatesEachPrefix ==
    \A k \in 1..Len(dRuns) :
        dRuns[k].path # << >> =>
            /\ dRuns[k].ok =
                  CreateEachIfMissing(DirsNamed(dRuns[k].path), dRuns[k].before, denied).ok
            /\ dRuns[k].after =
                  CreateEachIfMissing(DirsNamed(dRuns[k].path), dRuns[k].before, denied).dirs

\* C23: the worker goes from the wait to SaveImage only with a job queued, and
\* what it takes is the front job, which it pops; the deque changes only in a
\* step of the thread that owns the mutex (the push of EnqueueSave, the pop of
\* SaveWorker); once the worker thread runs, the stop flag changes only in
\* StopSaveWorker under the mutex; the worker tests the wait predicate and the
\* stop condition only while it owns the mutex; the mutex passes from one
\* thread to the other only by being released.
C23_QueueTouchedUnderMutex ==
    [][ /\ (wpc' = "w_save" /\ wpc # "w_save") =>
              /\ jobs # << >>
              /\ mutex = "worker"
              /\ wjob' = Head(jobs)
              /\ jobs' = Tail(jobs)
        /\ jobs' # jobs =>
              \/ (mutex = "acq" /\ pc = "enq_push" /\ pc' # pc)
              \/ (mutex = "worker" /\ wpc = "w_wait" /\ wpc' # wpc)
        /\ (stop' # stop /\ wpc # "w_none") =>
              (mutex = "acq" /\ pc = "stop_set" /\ pc' # pc)
        /\ (wpc = "w_wait" /\ wpc' # wpc) => mutex = "worker"
        /\ mutex' # mutex => (mutex = "free" \/ mutex' = "free") ]_vars

\* StopSaveWorker asks for the mutex while the worker owns it, woken with jobs
\* queued, about to take the front one.
C23_Witness ==
    /\ pc = "stop_lock"
    /\ wpc = "w_wait"
    /\ mutex = "worker"
    /\ Len(jobs) >= 2
    /\ ~stop

\* C24: a master whose watcher is inert (SetupTerminalForEsc left it disabled)
\* and whose SDK calls raise nothing but timeouts never leaves the loop,
\* whatever frames and timeouts arrive and whatever is typed: cancellation is
\* never seen, the stream stays started and is never stopped, AcquisitionMode
\* stays "Continuous" and is not written back, the stop flag is never set and
\* the run never returns.
C24_InertMasterNeverExits ==
    (deviceAccessStatus = "ReadWrite" /\ ~enabled /\ ~failed) =>
        /\ ~AfterLoop
        /\ ~escPressed
        /\ ~lastPoll.ret
        /\ ~stop
        /\ exitStatus = -2
        /\ Count(devLog, StreamCall("StopStream")) = 0
        /\ ~noImagesDiag
        /\ pc \in {"get", "frame", "enq_lock", "enq_push", "enq_notify", "requeue", "poll"} =>
              /\ streaming
              /\ acquisitionMode = "Continuous"
              /\ Count(devLog, SetNode("Device", "AcquisitionMode", acquisitionModeInitial))
                    = (IF acquisitionModeInitial = "Continuous" THEN 1 ELSE 0)

\* A master with an inert watcher, ESC typed and polled past, the ten saves
\* done, asking for the next frame.
C24_Witness ==
    /\ deviceAccessStatus = "ReadWrite"
    /\ ~enabled
    /\ pc = "get"
    /\ ~failed
    /\ savedImageCount = SaveLimit
    /\ ESC \in Range(stdin)
    /\ lastPoll.pending = stdin
    /\ acquisitionModeInitial = "SingleFrame"

====
